---- MODULE Spec2Model ----
(***************************************************************************)
(* Model of Tehtava4/llm_feeder.py: the command-line tool that loads text  *)
(* from files and URLs, normalizes and truncates it, assembles one prompt, *)
(* sends it to a chat-completion endpoint and writes the reply.            *)
(*                                                                         *)
(* A Python str is a sequence of one-character strings.  Python's None is  *)
(* the value None below, which no str equals.                              *)
(***************************************************************************)
EXTENDS Integers, Sequences, FiniteSets, TLC

VARIABLES
    pc,            \* position in main / in the function under study
    args,          \* the Namespace parse_args returned
    sources,       \* load_sources: the list `sources`
    extracted,     \* load_sources: `text` as load_url / load_file returned it
    normalized,    \* load_sources: `text` after normalize_text (line 72)
    prompt,        \* main: `prompt`
    openai_ok,     \* call_llm: whether `from openai import OpenAI` succeeded
    api_key,       \* call_llm: OPENAI_API_KEY in os.environ when it was called
    content,       \* call_llm: `content`
    clients,       \* number of OpenAI(...) clients constructed
    requests,      \* number of chat.completions.create requests issued
    response_text, \* main: `response_text`
    out,           \* what write_output delivered
    exit_code,     \* <<>> while running, <<n>> once the process has its status
    stderr,        \* the lines printed to standard error
    ran,           \* the stages of main that were entered, in order
    failed         \* the stage whose exception reached the handler, or "none"

vars == <<pc, args, sources, extracted, normalized, prompt, openai_ok, api_key,
          content, clients, requests, response_text, out, exit_code, stderr,
          ran, failed>>

None == <<"None">>

\* a local variable that was never assigned
Unset == <<"unset">>

-----------------------------------------------------------------------------
(* Bounds of the model *)

\* longest text normalize_text is applied to in SpecNormalize
MaxNormLen == 3
\* longest text load_url / load_file return in SpecLoad
MaxLen == 3
\* most positional inputs on a command line
MaxInputs == 2

-----------------------------------------------------------------------------
(* Strings *)

\* str.strip() removes these from both ends
Whitespace == {" ", "\t", "\n", "\r"}

\* str.splitlines() breaks lines at these ("\r\n" counts once)
LineBreaks == {"\n", "\r"}

RECURSIVE TextsOfLen(_, _)
TextsOfLen(alphabet, n) ==
    IF n = 0 THEN {<<>>}
    ELSE {Append(t, c) : t \in TextsOfLen(alphabet, n - 1), c \in alphabet}

Texts(alphabet, n) == UNION {TextsOfLen(alphabet, k) : k \in 0..n}

Min(a, b) == IF a < b THEN a ELSE b
Max(a, b) == IF a > b THEN a ELSE b

\* text[:k], for k of either sign
Slice(text, k) ==
    IF k >= 0 THEN SubSeq(text, 1, Min(k, Len(text)))
    ELSE SubSeq(text, 1, Max(Len(text) + k, 0))

RECURSIVE lstrip(_)
lstrip(s) ==
    IF s # <<>> /\ Head(s) \in Whitespace THEN lstrip(Tail(s)) ELSE s

RECURSIVE rstrip(_)
rstrip(s) ==
    IF s # <<>> /\ s[Len(s)] \in Whitespace
    THEN rstrip(SubSeq(s, 1, Len(s) - 1)) ELSE s

strip(s) == rstrip(lstrip(s))

\* str.splitlines(): a line ends at each line break; a final line without a
\* break is kept unless it is empty
splitlines(text) ==
    LET RECURSIVE go(_, _, _)
        go(i, cur, acc) ==
            IF i > Len(text)
            THEN IF cur = <<>> THEN acc ELSE Append(acc, cur)
            ELSE IF text[i] = "\r" /\ i < Len(text) /\ text[i + 1] = "\n"
            THEN go(i + 2, <<>>, Append(acc, cur))
            ELSE IF text[i] \in LineBreaks
            THEN go(i + 1, <<>>, Append(acc, cur))
            ELSE go(i + 1, Append(cur, text[i]), acc)
    IN go(1, <<>>, <<>>)

RECURSIVE join(_, _)
join(sep, parts) ==
    IF parts = <<>> THEN <<>>
    ELSE IF Len(parts) = 1 THEN parts[1]
    ELSE parts[1] \o sep \o join(sep, Tail(parts))

\* a faulty variant of normalize_text: trims each line but keeps the empty ones
normalize_text_keep_empty(text) ==
    LET lines == [i \in 1..Len(splitlines(text)) |-> strip(splitlines(text)[i])]
    IN join(<<"\n">>, lines)

normalize_text(text) ==
    LET lines == [i \in 1..Len(splitlines(text)) |-> strip(splitlines(text)[i])]
        compact == join(<<"\n">>, SelectSeq(lines, LAMBDA line : line # <<>>))
    IN compact

-----------------------------------------------------------------------------
(* load_sources *)

HttpPrefix == <<"h", "t", "t", "p", ":", "/", "/">>
HttpsPrefix == <<"h", "t", "t", "p", "s", ":", "/", "/">>

\* the inputs given on the command lines of the model
Url == <<"h", "t", "t", "p", ":", "/", "/", "u">>
NotesTxt == <<"n", "o", "t", "e", "s", ".", "t", "x", "t">>
AbsPath == <<"/", "d", "/", "a", ".", "m", "d">>

\* the working directory of the process
Cwd == <<"/", "w">>

IsPrefix(p, s) == Len(p) <= Len(s) /\ SubSeq(s, 1, Len(p)) = p

\* raw.startswith(("http://", "https://"))
IsUrl(raw) == IsPrefix(HttpPrefix, raw) \/ IsPrefix(HttpsPrefix, raw)

\* str(Path(raw).expanduser().resolve()), for a raw without "~", ".." or links
Resolve(raw) ==
    IF raw # <<>> /\ raw[1] = "/" THEN raw ELSE Cwd \o <<"/">> \o raw

\* a faulty variant of Label: the argument as given
Label_raw(raw) == raw

\* the label load_sources gives the source read from raw
Label(raw) == IF IsUrl(raw) THEN raw ELSE Resolve(raw)

\* a faulty variant of Truncate: one character too many
Truncate_one_more(text, max_chars) ==
    IF max_chars # 0 /\ Len(text) > max_chars
    THEN Slice(text, max_chars + 1) ELSE text

\* a faulty variant of Truncate: keeps the end of the text, text[-max_chars:]
Truncate_tail(text, max_chars) ==
    IF max_chars > 0 /\ Len(text) > max_chars
    THEN SubSeq(text, Len(text) - max_chars + 1, Len(text)) ELSE text

\* if max_chars and len(text) > max_chars: text = text[:max_chars]
Truncate(text, max_chars) ==
    IF max_chars # 0 /\ Len(text) > max_chars
    THEN Slice(text, max_chars) ELSE text

\* a faulty variant of IsEmptyText: the check is missing
IsEmptyText_never(text) == FALSE

\* not text.strip()
IsEmptyText(text) == strip(text) = <<>>

SourceContent(label, text) == [label |-> label, text |-> text]

\* what can go wrong before a text is extracted from raw
ExtractErrors(raw) ==
    IF IsUrl(raw) THEN {"unsupported-fetch", "upstream-failure"}
    ELSE {"input-not-found", "read-failure"}

\* a faulty variant of Handler: the error is printed but the status stays 0
Handler_exit_zero(e) == [exit_code |-> 0, line |-> <<"error", e>>]

\* main's except clause: print(f"error: {exc}", file=sys.stderr); return 1
Handler(e) == [exit_code |-> 1, line |-> <<"error", e>>]

\* an exception of kind e raised in a stage of main reaches the handler
Raise(stage, e) ==
    /\ pc' = "done"
    /\ failed' = stage
    /\ exit_code' = <<Handler(e).exit_code>>
    /\ stderr' = Append(stderr, Handler(e).line)

\* one iteration of load_sources' loop, the file or page holding a text of T
LoadSource(T) ==
    /\ pc = "load"
    /\ Len(sources) < Len(args.inputs)
    /\ LET raw == args.inputs[Len(sources) + 1]
       IN \/ \E e \in ExtractErrors(raw) :
                /\ Raise("load_sources", e)
                /\ extracted' = None
                /\ normalized' = None
                /\ UNCHANGED sources
          \/ \E text \in T :
                LET norm == normalize_text(text)
                    cut == Truncate(norm, args.max_chars)
                IN /\ extracted' = text
                   /\ normalized' = norm
                   /\ IF IsEmptyText(cut)
                      THEN Raise("load_sources", "extraction-empty")
                           /\ UNCHANGED sources
                      ELSE /\ sources' = Append(sources, SourceContent(Label(raw), cut))
                           /\ UNCHANGED <<pc, failed, exit_code, stderr>>
    /\ UNCHANGED <<args, prompt, openai_ok, api_key, content, clients, requests,
                   response_text, out, ran>>

\* the loop is over: return sources
LoadReturn ==
    /\ pc = "load"
    /\ Len(sources) = Len(args.inputs)
    /\ pc' = "loaded"
    /\ extracted' = None
    /\ normalized' = None
    /\ UNCHANGED <<args, sources, prompt, openai_ok, api_key, content, clients,
                   requests, response_text, out, exit_code, stderr, ran, failed>>

RECURSIVE SeqsOfLen(_, _)
SeqsOfLen(S, n) ==
    IF n = 0 THEN {<<>>}
    ELSE {Append(t, x) : t \in SeqsOfLen(S, n - 1), x \in S}

\* the non-empty lists of at most MaxInputs inputs
InputLists(S) == UNION {SeqsOfLen(S, n) : n \in 1..MaxInputs}

LoadAlphabet == {"a", " ", "\n"}
LoadTexts == Texts(LoadAlphabet, MaxLen)
LoadMaxChars == (-1)..(MaxLen - 1)

InitLoad ==
    /\ pc = "load"
    /\ args \in [inputs : InputLists({Url, NotesTxt}), max_chars : LoadMaxChars,
                 query : {None}, output : {None}]
    /\ sources = <<>>
    /\ extracted = None
    /\ normalized = None
    /\ prompt = None
    /\ openai_ok = FALSE
    /\ api_key = None
    /\ content = Unset
    /\ clients = 0
    /\ requests = 0
    /\ response_text = None
    /\ out = <<>>
    /\ exit_code = <<>>
    /\ stderr = <<>>
    /\ ran = <<"load_sources">>
    /\ failed = "none"

NextLoad == LoadSource(LoadTexts) \/ LoadReturn

SpecLoad == InitLoad /\ [][NextLoad]_vars

\* the latest iteration of the loop appended a source
JustLoaded == pc = "load" /\ extracted # None

\* C3: every source load_sources holds has a text that is neither empty nor
\* whitespace-only, whatever max_chars is; an input whose normalized and
\* truncated text is empty makes load_sources raise instead of being skipped,
\* so load_sources returns one source per input.
C3_LoadedTextNonEmpty ==
    /\ \A i \in 1..Len(sources) :
          /\ sources[i].text # <<>>
          /\ \E j \in 1..Len(sources[i].text) : sources[i].text[j] \notin Whitespace
    /\ pc = "loaded" => Len(sources) = Len(args.inputs)
    /\ JustLoaded => sources # <<>> /\ sources[Len(sources)].text # <<>>
    /\ extracted # None /\ Slice(normalized, IF args.max_chars = 0
                                                THEN Len(normalized)
                                                ELSE args.max_chars) = <<>>
          => /\ pc = "done"
             /\ failed = "load_sources"
             /\ stderr = <<<<"error", "extraction-empty">>>>

\* load_sources has returned two sources although max_chars is negative
C3_Witness ==
    /\ pc = "loaded"
    /\ Len(sources) = 2
    /\ args.max_chars < 0

\* C4: with max_chars = k > 0 the text of a loaded source has at most k
\* characters and is a prefix of the normalized extracted text; with
\* max_chars = 0 it is the whole normalized extracted text.
C4_TruncationBound ==
    JustLoaded =>
        LET text == sources[Len(sources)].text
        IN /\ args.max_chars > 0 =>
                 Len(text) <= args.max_chars /\ IsPrefix(text, normalized)
           /\ args.max_chars = 0 => text = normalized

\* a source was loaded from a text longer, once normalized, than max_chars
C4_Witness ==
    /\ JustLoaded
    /\ args.max_chars > 0
    /\ Len(normalized) > args.max_chars

\* C10 as claimed, for max_chars >= 0: the text of every loaded source is in
\* normalized form
C10_Original ==
    args.max_chars >= 0 =>
    \A i \in 1..Len(sources) : normalize_text(sources[i].text) = sources[i].text

\* C10: the text of every loaded source is in normalized form up to
\* whitespace at its very end: normalizing it removes only trailing
\* whitespace, and changes nothing when the text was not cut.
C10_NormalizedUpToTail ==
    /\ \A i \in 1..Len(sources) :
          normalize_text(sources[i].text) = rstrip(sources[i].text)
    /\ JustLoaded /\ sources[Len(sources)].text = normalized
          => normalize_text(sources[Len(sources)].text) = sources[Len(sources)].text

\* a loaded source was cut right after a space inside a line
C10_Witness ==
    /\ JustLoaded
    /\ args.max_chars > 0
    /\ Len(normalized) > Len(sources[Len(sources)].text)
    /\ sources[Len(sources)].text[Len(sources[Len(sources)].text)] = " "

-----------------------------------------------------------------------------
(* build_prompt *)

DefaultInstruction ==
    <<"S", "u", "m", "m", "a", "r", "i", "z", "e", " ", "t", "h", "e", " ", "f", "o",
      "l", "l", "o", "w", "i", "n", "g", " ", "s", "o", "u", "r", "c", "e", "s", ".", " ",
      "H", "i", "g", "h", "l", "i", "g", "h", "t", " ", "k", "e", "y", " ", "p", "o", "i",
      "n", "t", "s", " ", "a", "n", "d", " ", "c", "o", "m", "m", "o", "n", " ", "t", "h",
      "e", "m", "e", "s", ".">>

SourceWord == <<"S", "o", "u", "r", "c", "e", " ">>
ContextHeader == <<"C", "o", "n", "t", "e", "x", "t", ":", "\n">>
Delimiter == <<"\n", "\n", "-", "-", "-", "\n", "\n">>

DigitChars == <<"0", "1", "2", "3", "4", "5", "6", "7", "8", "9">>

\* str(n) for n >= 0
RECURSIVE str(_)
str(n) ==
    IF n < 10 THEN <<DigitChars[n + 1]>>
    ELSE str(n \div 10) \o <<DigitChars[(n % 10) + 1]>>

\* f"Source {idx}: {source.label}\n{source.text}"
ContextPart(idx, source) ==
    SourceWord \o str(idx) \o <<":", " ">> \o source.label \o <<"\n">> \o source.text

\* a faulty variant of build_prompt: enumerate(sources) without start=1
build_prompt_from_zero(query, srcs) ==
    LET instruction == IF query = None \/ query = <<>> THEN DefaultInstruction ELSE query
        context_parts == [idx \in 1..Len(srcs) |-> ContextPart(idx - 1, srcs[idx])]
        context == join(Delimiter, context_parts)
    IN instruction \o <<"\n", "\n">> \o ContextHeader \o context

\* a faulty variant of build_prompt: the parts are joined with a blank line only
build_prompt_blank_line(query, srcs) ==
    LET instruction == IF query = None \/ query = <<>> THEN DefaultInstruction ELSE query
        context_parts == [idx \in 1..Len(srcs) |-> ContextPart(idx, srcs[idx])]
        context == join(<<"\n", "\n">>, context_parts)
    IN instruction \o <<"\n", "\n">> \o ContextHeader \o context

build_prompt(query, srcs) ==
    LET instruction == IF query = None \/ query = <<>> THEN DefaultInstruction ELSE query
        context_parts == [idx \in 1..Len(srcs) |-> ContextPart(idx, srcs[idx])]
        context == join(Delimiter, context_parts)
    IN instruction \o <<"\n", "\n">> \o ContextHeader \o context

-----------------------------------------------------------------------------
(* call_llm *)

\* what the chat-completion request can come back with
Responses ==
    {[kind |-> "error", content |-> None],        \* the request raises
     [kind |-> "no-choices", content |-> None],   \* response.choices is empty
     [kind |-> "no-message", content |-> None]}   \* choice.message is None
    \cup [kind : {"message"},
          content : {None, <<>>, <<" ">>, <<"o", "k">>, <<" ", "o", "k", "\n">>}]

NoResult == [err |-> "none", clients |-> 0, requests |-> 0, content |-> Unset,
             text |-> None]

\* a faulty variant of call_llm: the client is constructed before the key is checked
call_llm_client_first(installed, key, response) ==
    IF ~installed THEN [NoResult EXCEPT !.err = "openai-missing"]
    ELSE IF key = None \/ key = <<>>
    THEN [NoResult EXCEPT !.err = "missing-credential", !.clients = 1]
    ELSE IF response.kind = "error"
    THEN [NoResult EXCEPT !.err = "upstream-failure", !.clients = 1, !.requests = 1]
    ELSE IF response.kind = "no-choices"
    THEN [NoResult EXCEPT !.err = "no-choices", !.clients = 1, !.requests = 1]
    ELSE LET c == IF response.kind = "message" THEN response.content ELSE <<>>
         IN IF c = None \/ c = <<>>
            THEN [err |-> "empty-reply", clients |-> 1, requests |-> 1,
                  content |-> c, text |-> None]
            ELSE [err |-> "none", clients |-> 1, requests |-> 1,
                  content |-> c, text |-> strip(c)]

\* call_llm where the import succeeds or not, the environment holds key, and
\* the request, if issued, comes back with response
call_llm(installed, key, response) ==
    IF ~installed THEN [NoResult EXCEPT !.err = "openai-missing"]
    ELSE IF key = None \/ key = <<>>
    THEN [NoResult EXCEPT !.err = "missing-credential"]
    ELSE IF response.kind = "error"
    THEN [NoResult EXCEPT !.err = "upstream-failure", !.clients = 1, !.requests = 1]
    ELSE IF response.kind = "no-choices"
    THEN [NoResult EXCEPT !.err = "no-choices", !.clients = 1, !.requests = 1]
    ELSE LET c == IF response.kind = "message" THEN response.content ELSE <<>>
         IN IF c = None \/ c = <<>>
            THEN [err |-> "empty-reply", clients |-> 1, requests |-> 1,
                  content |-> c, text |-> None]
            ELSE [err |-> "none", clients |-> 1, requests |-> 1,
                  content |-> c, text |-> strip(c)]

-----------------------------------------------------------------------------
(* main *)

DefaultMaxChars == 12000

\* the values of --max-chars, -q and -o on the command lines of the model
MaxCharsChoices == {2, 100, DefaultMaxChars}
Queries == {None, <<>>, <<"Q", "?">>}
OutPath == <<"o", ".", "t", "x", "t">>
Outputs == {None, OutPath}

\* what the files and pages of the model hold
HelloWorld == <<"H", "e", "l", "l", "o", "\n", "\n", "W", "o", "r", "l", "d">>
SampleTexts == {<<>>, <<" ", "\n">>, HelloWorld, <<"a", " ", "b">>}

NoArgs == [inputs |-> <<>>, max_chars |-> 0, query |-> None, output |-> None]

AllStages == <<"load_sources", "build_prompt", "call_llm", "write_output">>

Init ==
    /\ pc = "start"
    /\ args = NoArgs
    /\ sources = <<>>
    /\ extracted = None
    /\ normalized = None
    /\ prompt = None
    /\ openai_ok = FALSE
    /\ api_key = None
    /\ content = Unset
    /\ clients = 0
    /\ requests = 0
    /\ response_text = None
    /\ out = <<>>
    /\ exit_code = <<>>
    /\ stderr = <<>>
    /\ ran = <<>>
    /\ failed = "none"

\* args = parse_args(argv or sys.argv[1:]), outside main's try block: argparse
\* ends the process itself on a command line it rejects (status 2, usage and
\* an error line on standard error) and on -h (status 0)
ParseArgs ==
    /\ pc = "start"
    /\ \/ /\ \E a \in [inputs : InputLists({Url, NotesTxt, AbsPath}),
                       max_chars : MaxCharsChoices, query : Queries,
                       output : Outputs] : args' = a
          /\ pc' = "load"
          /\ ran' = <<"load_sources">>
          /\ UNCHANGED <<exit_code, stderr>>
       \/ /\ \E why \in {"inputs required", "invalid int value", "unrecognized arguments"} :
                stderr' = <<<<"usage", "llm_feeder.py">>, <<"llm_feeder.py: error", why>>>>
          /\ exit_code' = <<2>>
          /\ pc' = "done"
          /\ UNCHANGED <<args, ran>>
       \/ /\ exit_code' = <<0>>
          /\ pc' = "done"
          /\ UNCHANGED <<args, ran, stderr>>
    /\ UNCHANGED <<sources, extracted, normalized, prompt, openai_ok, api_key,
                   content, clients, requests, response_text, out, failed>>

\* prompt = build_prompt(args.query, sources)
BuildPrompt ==
    /\ pc = "loaded"
    /\ prompt' = build_prompt(args.query, sources)
    /\ ran' = Append(ran, "build_prompt")
    /\ pc' = "built"
    /\ UNCHANGED <<args, sources, extracted, normalized, openai_ok, api_key,
                   content, clients, requests, response_text, out, exit_code,
                   stderr, failed>>

\* response_text = call_llm(prompt, args.model)
CallLlm ==
    /\ pc = "built"
    /\ ran' = Append(ran, "call_llm")
    /\ \E installed \in BOOLEAN, key \in {None, <<>>, <<"s", "k">>} :
         \E response \in IF call_llm(installed, key, [kind |-> "error", content |-> None]).requests = 0
                         THEN {[kind |-> "error", content |-> None]}
                         ELSE Responses :
            LET r == call_llm(installed, key, response)
            IN /\ openai_ok' = installed
               /\ api_key' = key
               /\ content' = r.content
               /\ clients' = clients + r.clients
               /\ requests' = requests + r.requests
               /\ IF r.err = "none"
                  THEN /\ response_text' = r.text
                       /\ pc' = "called"
                       /\ UNCHANGED <<exit_code, stderr, failed>>
                  ELSE /\ Raise("call_llm", r.err)
                       /\ UNCHANGED response_text
    /\ UNCHANGED <<args, sources, extracted, normalized, prompt, out>>

\* what write_output(text, output_path) delivers, and where
write_output(text, output_path) ==
    IF output_path # None /\ output_path # <<>>
    THEN [dest |-> Resolve(output_path), text |-> text, complete |-> TRUE]
    ELSE [dest |-> <<"stdout">>, text |-> text \o <<"\n">>, complete |-> TRUE]

\* write_output(response_text, args.output); return 0
WriteOutput ==
    /\ pc = "called"
    /\ ran' = Append(ran, "write_output")
    /\ \/ /\ out' = <<write_output(response_text, args.output)>>
          /\ exit_code' = <<0>>
          /\ pc' = "done"
          /\ UNCHANGED <<stderr, failed>>
       \/ /\ Raise("write_output", "write-failure")
          /\ \E part \in {<<>>, <<[dest |-> write_output(response_text, args.output).dest,
                                   text |-> <<>>, complete |-> FALSE]>>} : out' = part
    /\ UNCHANGED <<args, sources, extracted, normalized, prompt, openai_ok,
                   api_key, content, clients, requests, response_text>>

Next ==
    \/ ParseArgs
    \/ LoadSource(SampleTexts)
    \/ LoadReturn
    \/ BuildPrompt
    \/ CallLlm
    \/ WriteOutput

Spec == Init /\ [][Next]_vars

StagesThrough(stage) ==
    SubSeq(AllStages, 1, CHOOSE n \in 1..Len(AllStages) : AllStages[n] = stage)

\* every stage completed, the reply was written and the status is 0
SucceededRun ==
    /\ exit_code = <<0>>
    /\ failed = "none"
    /\ ran = AllStages
    /\ stderr = <<>>
    /\ requests = 1
    /\ Len(out) = 1 /\ out[1].complete

\* one stage failed, no later stage ran, one error line was printed and the
\* status is 1
FailedRun ==
    /\ exit_code = <<1>>
    /\ failed # "none"
    /\ ran = StagesThrough(failed)
    /\ Len(stderr) = 1 /\ stderr[1][1] = "error"
    /\ failed = "load_sources" => clients = 0 /\ requests = 0
    /\ failed # "write_output" => out = <<>>
    /\ \A i \in 1..Len(out) : ~out[i].complete

\* C1 as claimed: every invocation of main ends with status 0 after all the
\* stages, or with status 1 after one "error: ..." line
C1_Original == pc = "done" => SucceededRun \/ FailedRun

\* C1: every invocation of main in which parse_args returns ends in exactly one
\* of two ways: status 0 once load_sources, build_prompt, call_llm and
\* write_output have all completed, or status 1 after one "error: ..." line
\* when a stage fails, no later stage running; an invocation that argparse
\* itself ends (a rejected command line: status 2; -h: status 0) runs no stage.
C1_ExitCodes ==
    /\ pc # "done" => exit_code = <<>> /\ failed = "none" /\ stderr = <<>>
    /\ pc = "done" =>
          IF args # NoArgs
          THEN (SucceededRun \/ FailedRun) /\ ~(SucceededRun /\ FailedRun)
          ELSE /\ exit_code \in {<<0>>, <<2>>}
               /\ ran = <<>> /\ failed = "none"
               /\ clients = 0 /\ requests = 0 /\ out = <<>>

\* the second of two inputs could not be loaded and the run has ended
C1_Witness ==
    /\ pc = "done"
    /\ failed = "load_sources"
    /\ Len(sources) = 1
    /\ exit_code = <<1>>

\* call_llm was called and the environment held no usable OPENAI_API_KEY
CalledWithoutKey == Len(ran) >= 3 /\ (api_key = None \/ api_key = <<>>)

\* C2 as claimed: without a key call_llm raises the missing-credential error,
\* having built no client and issued no request
C2_Original ==
    CalledWithoutKey =>
        /\ failed = "call_llm"
        /\ stderr = <<<<"error", "missing-credential">>>>
        /\ clients = 0 /\ requests = 0

\* C2: when OPENAI_API_KEY is unset or empty, call_llm raises before the API
\* client is constructed and before any request is issued: the
\* missing-credential error when the openai package can be imported, the
\* missing-package error of the import guard otherwise.
C2_NoRequestWithoutKey ==
    CalledWithoutKey =>
        /\ failed = "call_llm"
        /\ stderr = <<<<"error", IF openai_ok THEN "missing-credential"
                                 ELSE "openai-missing">>>>
        /\ clients = 0 /\ requests = 0

\* call_llm ran with the package importable and the key set to the empty string
C2_Witness == CalledWithoutKey /\ openai_ok /\ api_key = <<>> /\ pc = "done"

\* call_llm returned to main
CallReturned == Len(ran) >= 3 /\ failed # "call_llm"

\* C9: call_llm never yields an empty reply: it raises the empty-reply error
\* when the reply content is empty or absent, and what it returns is the
\* trimmed reply and is not empty, so write_output is never given an empty
\* reply.
C9_ReplyNeverEmpty ==
    /\ content = None \/ content = <<>> =>
          failed = "call_llm" /\ stderr = <<<<"error", "empty-reply">>>>
    /\ CallReturned => response_text = strip(content) /\ response_text # <<>>
    /\ \A i \in 1..Len(out) :
          out[i].complete => out[i].text \notin {<<>>, <<"\n">>}

InstructionOf(query) ==
    IF query = None \/ query = <<>> THEN DefaultInstruction ELSE query

\* the blocks of srcs[i..], each after the first preceded by the delimiter
RECURSIVE BlocksFrom(_, _)
BlocksFrom(i, srcs) ==
    IF i > Len(srcs) THEN <<>>
    ELSE (IF i > 1 THEN Delimiter ELSE <<>>)
         \o SourceWord \o str(i) \o <<":", " ">> \o srcs[i].label
         \o <<"\n">> \o srcs[i].text \o BlocksFrom(i + 1, srcs)

\* C5 as claimed: nothing stands between the blank line and the first block
C5_Original ==
    prompt # None =>
        prompt = InstructionOf(args.query) \o <<"\n", "\n">> \o BlocksFrom(1, sources)

\* C5: build_prompt returns the instruction (given or default), a blank
\* line, the line "Context:", then the blocks "Source {i}: {label}\n{text}"
\* joined by "\n\n---\n\n".
C5_PromptLayout ==
    prompt # None =>
        prompt = InstructionOf(args.query) \o <<"\n", "\n">> \o ContextHeader
                    \o BlocksFrom(1, sources)

\* a prompt was built from two sources and an instruction given with -q
C5_Witness == prompt # None /\ Len(sources) = 2 /\ args.query = <<"Q", "?">>

Contains(s, sub) ==
    \E p \in 1..(Len(s) - Len(sub) + 1) : SubSeq(s, p, p + Len(sub) - 1) = sub

HelloNlWorld == <<"H", "e", "l", "l", "o", "\n", "W", "o", "r", "l", "d">>

\* notes.txt holding "Hello\n\nWorld" was the only input, with the default
\* query and max_chars = 100, and the prompt is built
Scenario1 ==
    /\ prompt # None
    /\ args.inputs = <<NotesTxt>>
    /\ args.query = None
    /\ args.max_chars = 100
    /\ sources[1].text = HelloNlWorld

\* C6 as claimed: a label is the input argument exactly as given
C6_Original ==
    /\ \A i \in 1..Len(sources) : sources[i].label = args.inputs[i]
    /\ Scenario1 =>
          Contains(prompt, SourceWord \o <<"1", ":", " ">> \o NotesTxt
                              \o <<"\n">> \o HelloNlWorld)

\* C6: the label of a source is the input argument as given when it is a URL,
\* and the resolved absolute path of the argument when it is a file, so that
\* in scenario 1 the prompt contains
\* "Source 1: <working directory>/notes.txt\nHello\nWorld".
C6_LabelIsUrlOrResolvedPath ==
    /\ \A i \in 1..Len(sources) :
          LET raw == args.inputs[i]
          IN sources[i].label =
                IF IsPrefix(HttpPrefix, raw) \/ IsPrefix(HttpsPrefix, raw) THEN raw
                ELSE IF raw[1] = "/" THEN raw
                ELSE Cwd \o <<"/">> \o raw
    /\ Scenario1 =>
          Contains(prompt, SourceWord \o <<"1", ":", " ">> \o Cwd \o <<"/">>
                              \o NotesTxt \o <<"\n">> \o HelloNlWorld)

\* scenario 1 has happened
C6_Witness == Scenario1

\* the block of the i-th source, as the claim words it
BlockOf(i) ==
    SourceWord \o str(i) \o <<":", " ">> \o sources[i].label \o <<"\n">>
        \o sources[i].text

\* the blocks of sources i, i+1, ... occur in the prompt in this order, the
\* first of them at or after position from
RECURSIVE BlocksInOrderFrom(_, _)
BlocksInOrderFrom(i, from) ==
    IF i > Len(sources) THEN TRUE
    ELSE LET at == {p \in from..(Len(prompt) - Len(BlockOf(i)) + 1) :
                        SubSeq(prompt, p, p + Len(BlockOf(i)) - 1) = BlockOf(i)}
         IN /\ at # {}
            /\ BlocksInOrderFrom(i + 1,
                  (CHOOSE p \in at : \A q \in at : p <= q) + Len(BlockOf(i)))

\* C7: load_sources returns the sources in the order of the input arguments
\* and build_prompt keeps that order with ordinals from 1: the block headed
\* "Source i: <label of the i-th input>" is in the prompt for every i, the
\* block for i before the block for j whenever i < j.
C7_OrderPreserved ==
    /\ \A i \in 1..Len(sources) : sources[i].label = Label(args.inputs[i])
    /\ prompt # None =>
          /\ Len(sources) = Len(args.inputs)
          /\ BlocksInOrderFrom(1, 1)

\* a prompt was built from a file and a URL given in this order
C7_Witness ==
    /\ prompt # None
    /\ args.inputs = <<NotesTxt, Url>>

-----------------------------------------------------------------------------
(* normalize_text on its own: applied to a text, then to its own result *)

NormAlphabet == {"a", "b", " ", "\t", "\n", "\r"}

InitNormalize ==
    /\ pc = "normalize"
    /\ extracted \in Texts(NormAlphabet, MaxNormLen)
    /\ normalized = None
    /\ args = [inputs |-> <<>>, max_chars |-> 0, query |-> None, output |-> None]
    /\ sources = <<>>
    /\ prompt = None
    /\ openai_ok = FALSE
    /\ api_key = None
    /\ content = Unset
    /\ clients = 0
    /\ requests = 0
    /\ response_text = None
    /\ out = <<>>
    /\ exit_code = <<>>
    /\ stderr = <<>>
    /\ ran = <<>>
    /\ failed = "none"

Normalize ==
    /\ pc = "normalize"
    /\ normalized' = normalize_text(extracted)
    /\ pc' = "normalized"
    /\ UNCHANGED <<args, sources, extracted, prompt, openai_ok, api_key, content,
                   clients, requests, response_text, out, exit_code, stderr,
                   ran, failed>>

Renormalize ==
    /\ pc = "normalized"
    /\ extracted' = normalized
    /\ normalized' = normalize_text(normalized)
    /\ pc' = "renormalized"
    /\ UNCHANGED <<args, sources, prompt, openai_ok, api_key, content, clients,
                   requests, response_text, out, exit_code, stderr, ran, failed>>

NextNormalize == Normalize \/ Renormalize

SpecNormalize == InitNormalize /\ [][NextNormalize]_vars

\* the characters in lo..hi of t that belong to one line
SameLine(t, lo, hi) == \A j \in lo..hi : t[j] \notin LineBreaks

\* the first positions of t's lines that hold a character other than whitespace
KeptLineStarts(t) ==
    {i \in 1..Len(t) :
        /\ t[i] \notin LineBreaks
        /\ i = 1 \/ t[i - 1] \in LineBreaks
        /\ \E j \in i..Len(t) : SameLine(t, i, j) /\ t[j] \notin Whitespace}

\* the line of t starting at lo, without its leading and trailing whitespace
TrimmedLineAt(t, lo) ==
    LET inLine == {j \in lo..Len(t) : SameLine(t, lo, j) /\ t[j] \notin Whitespace}
        first == CHOOSE j \in inLine : \A k \in inLine : j <= k
        last == CHOOSE j \in inLine : \A k \in inLine : j >= k
    IN SubSeq(t, first, last)

RECURSIVE TrimmedLinesFrom(_, _)
TrimmedLinesFrom(t, starts) ==
    IF starts = {} THEN <<>>
    ELSE LET lo == CHOOSE i \in starts : \A k \in starts : i <= k
         IN <<TrimmedLineAt(t, lo)>> \o TrimmedLinesFrom(t, starts \ {lo})

\* C8: normalize_text is idempotent and order-preserving: normalizing a
\* normalized text returns it unchanged, and the result of normalize_text(t)
\* is t's non-empty trimmed lines, in their original order, joined with "\n".
C8_NormalizeIdempotent ==
    /\ pc = "normalized" =>
          normalized = join(<<"\n">>, TrimmedLinesFrom(extracted, KeptLineStarts(extracted)))
    /\ pc = "renormalized" => normalized = extracted

\* a text with an empty line, padded lines and two kept lines has been
\* normalized and the result normalized again
C8_Witness ==
    /\ pc = "renormalized"
    /\ Len(extracted) = 3
    /\ \E i \in 1..Len(extracted) : extracted[i] = "\n"

====
